---- MODULE Spec2Model ----
(***************************************************************************)
(* FakeMessageComposer (src/MessageUtilities.js): the channel-scoped       *)
(* content reconciliation engine of the plugin class.                      *)
(*                                                                         *)
(* Strings are sequences of tokens.  A token is one character, or a fixed  *)
(* literal of the source that no operation looks into (the default message *)
(* text, the id prefix, the badge text).  Whitespace is always the token   *)
(* " " of its own, so that String.prototype.trim and the snowflake regular *)
(* expression are computed on the characters they inspect.  null and the   *)
(* empty string are both the empty sequence: the code only tests them for  *)
(* truthiness.                                                             *)
(***************************************************************************)
EXTENDS Integers, Sequences, FiniteSets, TLC

VARIABLES
    config,             \* this.config
    started,            \* this.started
    channelSelectUnsub, \* this.channelSelectUnsub is not null
    modulesReady,       \* this.React && this.dispatcher (set by ensureModules)
    timestampBadgePatched, \* this.timestampBadgePatched
    injectedMessages,   \* this.injectedMessages: insertion-ordered Map, as entries
    userCache,          \* this.userCache: the ids that hold a resolved user
    persistTimer,       \* this.persistTimer: "none" (null), "pending", or "fired" (a stale handle)
    timers,             \* the host's live timers set by enqueuePersist (how many)
    wait,               \* the waitForModule(match, timeout) call in flight
    startPc,            \* where an in-flight start() is suspended
    pending,            \* refreshChannel calls suspended at their await (FIFO)
    stored,             \* the persistence collaborator's slot: <<>> or <<value>>
    registered,         \* handlers the event stream holds for CHANNEL_SELECT
    current,            \* the host's selected channel (<<>> when none)
    calls,              \* collaborator calls made by the last step, in order
    shown,              \* per channel: the last injection/removal call was an injection
    escaped,            \* the last step let an exception escape its handler
    last                \* what the last step ran: a refreshChannel call, its resumption, or stop()

vars == <<config, started, channelSelectUnsub, modulesReady, timestampBadgePatched,
          injectedMessages, userCache, persistTimer, timers, wait, startPc, pending, stored,
          registered, current, calls, shown, escaped, last>>

----------------------------------------------------------------------------
(* Bounds of the model *)

\* refreshChannel calls that may be suspended at the same time
MaxPending == 2

\* channel-select handlers the event stream may hold at the same time, the
\* ones a raising unsubscribe left behind included
MaxHandlers == 2

----------------------------------------------------------------------------
(* Constants of the source *)

MESSAGE_ID_PREFIX == <<"fake-message-composer">>
LOCAL_BADGE_TEXT == <<"LOCAL FAKE">>
\* /^\d{5,}$/
MinSnowflakeLen == 5

DefaultContent == <<"This is a local-only fake message.">>

DEFAULT_CONFIG ==
    [enabled |-> TRUE, discordId |-> <<>>, messageContent |-> DefaultContent,
     channelMode |-> "any", targetChannelId |-> <<>>, embeds |-> <<>>]

getDefaultConfig == DEFAULT_CONFIG

----------------------------------------------------------------------------
(* Inputs *)

Ch111 == <<"1", "1", "1">>
Ch222 == <<"2", "2", "2">>
Ch11111 == <<"1", "1", "1", "1", "1">>
Id12345 == <<"1", "2", "3", "4", "5">>

\* channels of the host
Channels == {Ch111, Ch222, Ch11111}

\* the channels the host selects under Spec
EngineChannels == {Ch222, Ch11111}

\* single-field patches the settings panel applies (updatePartial) under Spec
Patches ==
    {[field |-> "enabled", value |-> b] : b \in BOOLEAN}
    \cup {[field |-> "discordId", value |-> v] : v \in {Id12345}}
    \cup {[field |-> "messageContent", value |-> v] : v \in {<<>>}}

----------------------------------------------------------------------------
(* Dependency Resolver *)

\* timeouts and the clock are counted in delays of 100 ms
MaxTimeout == 3

\* how late a delay(100) may resolve, in delays
MaxLate == 2

\* no waitForModule call has been made
NoWait ==
    [pc |-> "idle", match |-> <<>>, timeout |-> 0, elapsed |-> 0, probes |-> 0,
     error |-> <<>>]

\* the descriptors: property names, or <<>> for a predicate function
Matches == {<<"getChannel">>, <<"dispatch", "subscribe">>, <<>>}

RECURSIVE Join(_)
\* match.join(", ")
Join(names) ==
    IF Len(names) <= 1 THEN names
    ELSE <<names[1], ", ">> \o Join(Tail(names))

\* `Module ${Array.isArray(match) ? match.join(", ") : "predicate"} not found within timeout`
NotFound(match) ==
    <<"Module ">> \o (IF match = <<>> THEN <<"predicate">> ELSE Join(match))
        \o <<" not found within timeout">>

\* a loop that never looks at the clock
WaitExpired_Never(w) == FALSE

\* the loop test fails: Date.now() - start >= timeout
WaitExpired(w) == w.elapsed >= w.timeout

----------------------------------------------------------------------------
(* Strings *)

Digits == {"0", "1", "2", "3", "4", "5", "6", "7", "8", "9"}

RECURSIVE TrimStart(_)
TrimStart(s) ==
    IF s # <<>> /\ Head(s) = " " THEN TrimStart(Tail(s)) ELSE s

RECURSIVE TrimEnd(_)
TrimEnd(s) ==
    IF s # <<>> /\ s[Len(s)] = " " THEN TrimEnd(SubSeq(s, 1, Len(s) - 1)) ELSE s

\* String.prototype.trim
Trim(s) == TrimEnd(TrimStart(s))

\* a test of the length alone
isSnowflake_LengthOnly(value) == Len(Trim(value)) >= MinSnowflakeLen

\* isSnowflake(value): /^\d{5,}$/.test(value.trim())
isSnowflake(value) ==
    LET t == Trim(value) IN
    /\ Len(t) >= MinSnowflakeLen
    /\ \A i \in 1..Len(t) : t[i] \in Digits

\* s occurs in t as a contiguous substring
Contains(t, s) ==
    \E i \in 0..(Len(t) - Len(s)) : SubSeq(t, i + 1, i + Len(s)) = s

----------------------------------------------------------------------------
(* The Active-Injection Table: a Map, kept as its entries in insertion order *)

MapHas(m, k) == \E i \in 1..Len(m) : m[i].key = k

MapGet(m, k) == LET i == CHOOSE i \in 1..Len(m) : m[i].key = k IN m[i].value

\* a set that never looks for the key
MapSet_Append(m, k, v) == Append(m, [key |-> k, value |-> v])

\* Map.prototype.set: an existing key keeps its position and takes the value
MapSet(m, k, v) ==
    IF MapHas(m, k)
    THEN [i \in 1..Len(m) |-> IF m[i].key = k THEN [key |-> k, value |-> v] ELSE m[i]]
    ELSE Append(m, [key |-> k, value |-> v])

\* Map.prototype.delete
MapDelete(m, k) == SelectSeq(m, LAMBDA e : e.key # k)

EntriesFor(m, k) == SelectSeq(m, LAMBDA e : e.key = k)

----------------------------------------------------------------------------
(* Collaborator calls *)

NoAuthor == [id |-> <<>>, known |-> FALSE]

\* messageActions.receiveMessage(channel_id, message) / MESSAGE_CREATE.
\* wasShown is stamped on the call when the step records it.
ReceiveCall(message) ==
    [op |-> "receive", ch |-> message.channel_id, id |-> message.id,
     body |-> message.content, author |-> message.author, wasShown |-> FALSE]

\* messageActions.deleteMessage(channelId, messageId) / MESSAGE_DELETE
dispatchMessageDelete(channelId, messageId) ==
    [op |-> "delete", ch |-> channelId, id |-> messageId,
     body |-> <<>>, author |-> NoAuthor, wasShown |-> FALSE]

OtherCall(op) ==
    [op |-> op, ch |-> <<>>, id |-> <<>>, body |-> <<>>, author |-> NoAuthor,
     wasShown |-> FALSE]

\* what a step did of refreshChannel: op is "refreshChannel" for a call (then
\* suspended tells whether it reached its await), "resume" for the rest of a
\* suspended call (then identity tells how the identity lookup ended:
\* "returned", "rejected" for a rejected userStore.fetchUser, "raised" for a
\* userStore.getUser that raised, and held is the id fetchUser was called
\* with), "stop" for stop() (then held is the table
\* stop() found and again tells that the step before was a stop() too),
\* "startFailed" for the step in which start() caught an error, "load" for
\* the loadConfig() of start() (then get is what storage.get did and held the
\* value that was merged, if any), "applyConfig" and "resetConfigToDefaults"
\* for these calls by the host under SpecOptions, "raised" for the rest of a
\* suspended call in which building or injecting raised (then get tells
\* which), "subscribe" for a call of
\* subscribeToChannelChanges() by the host (then again tells that a handle
\* was held already), "dispatch" for a call of the channel-select handler
\* (then held is its payload), "none" otherwise
NoRefresh ==
    [op |-> "none", ch |-> <<>>, suspended |-> FALSE, identity |-> "none",
     held |-> <<>>, again |-> FALSE, get |-> "none"]

Loaded(merged, get) == [NoRefresh EXCEPT !.op = "load", !.held = merged, !.get = get]

Stopped(tbl) == [NoRefresh EXCEPT !.op = "stop", !.held = tbl]

StartFailed == [NoRefresh EXCEPT !.op = "startFailed"]

\* the step was applyConfig or resetConfigToDefaults called by the host; held
\* is the arguments applyConfig got
ApplyCalled(method, next, options) ==
    [NoRefresh EXCEPT !.op = method, !.held = <<[next |-> next, options |-> options]>>]

\* the step was the channel-select handler called with payload
Dispatched(payload) == [NoRefresh EXCEPT !.op = "dispatch", !.held = <<payload>>]

SubscribeCalled(held) == [NoRefresh EXCEPT !.op = "subscribe", !.again = held]

\* the step was the write of the debounce timer; held is the slot it replaced
Persisted(slot) == [NoRefresh EXCEPT !.op = "persist", !.held = slot]

Called(channelIdRaw, before, after) ==
    IF channelIdRaw = <<>> THEN NoRefresh
    ELSE [NoRefresh EXCEPT !.op = "refreshChannel", !.ch = channelIdRaw,
                           !.suspended = Len(after) > Len(before)]

ResumeRaised(rec, outcome, at) ==
    [NoRefresh EXCEPT !.op = "raised", !.ch = rec.ch, !.held = <<rec.authorId>>, !.get = at]

Resumed(rec, outcome) ==
    [NoRefresh EXCEPT
       !.op = "resume", !.ch = rec.ch, !.held = <<rec.authorId>>,
       !.identity = IF rec.res = "threw" THEN "raised"
                    ELSE IF rec.res = "fetching" /\ outcome = "reject" THEN "rejected"
                    ELSE "returned"]

RECURSIVE Record(_, _)
\* shown after the calls cs
Record(h, cs) ==
    IF cs = <<>> THEN h
    ELSE LET c == Head(cs) IN
         Record(IF c.op = "delete" THEN [h EXCEPT ![c.ch] = FALSE]
                ELSE IF c.op = "receive" THEN [h EXCEPT ![c.ch] = TRUE]
                ELSE h,
                Tail(cs))

RECURSIVE Stamp(_, _)
\* the calls cs, each injection and removal stamped with whether the last
\* call for its channel before it was an injection
Stamp(h, cs) ==
    IF cs = <<>> THEN <<>>
    ELSE LET c == Head(cs) IN
         IF c.op \in {"receive", "delete"}
         THEN <<[c EXCEPT !.wasShown = h[c.ch]]>> \o Stamp(Record(h, <<c>>), Tail(cs))
         ELSE <<c>> \o Stamp(h, Tail(cs))

----------------------------------------------------------------------------
(* Config Store *)

ConfigFields ==
    {"enabled", "discordId", "messageContent", "channelMode", "targetChannelId", "embeds"}

\* a value that is no string: undefined
Undefined == <<"(undefined)">>

\* a candidate that is no array
NotArray == <<[notArray |-> TRUE]>>

IsArray(candidate) == ~(Len(candidate) = 1 /\ "notArray" \in DOMAIN candidate[1])

\* typeof entry?.[member] === "string" ? entry[member] : ""
StringOr(entry, member) ==
    IF member \in DOMAIN entry /\ entry[member] # Undefined THEN entry[member] ELSE <<>>

\* a normalisation that keeps the entries of an array as they are
normalizeEmbeds_KeepsEntries(candidate) ==
    IF ~IsArray(candidate) THEN <<>> ELSE candidate

\* normalizeEmbeds(candidate): [] for a non-array, else {label, url} strings
normalizeEmbeds(candidate) ==
    IF ~IsArray(candidate) THEN <<>>
    ELSE [i \in 1..Len(candidate) |->
            [label |-> StringOr(candidate[i], "label"),
             url |-> StringOr(candidate[i], "url")]]

\* mergeWithDefaults(configLike): { ...defaults, ...configLike, embeds: normalized }.
\* configLike is a function from the fields it has to their values.
mergeWithDefaults(configLike) ==
    [f \in ConfigFields \cup DOMAIN configLike |->
        IF f = "embeds"
        THEN normalizeEmbeds(IF f \in DOMAIN configLike THEN configLike[f] ELSE <<>>)
        ELSE IF f \in DOMAIN configLike THEN configLike[f] ELSE getDefaultConfig[f]]

\* a clear that forgets the handle without cancelling the timer
clearPersistTimer_NoCancel(handle, live) == [handle |-> "none", live |-> live]

\* clearPersistTimer(): clearTimeout on a held handle, then null
clearPersistTimer(handle, live) ==
    IF handle = "none" THEN [handle |-> handle, live |-> live]
    ELSE [handle |-> "none", live |-> IF handle = "pending" THEN live - 1 ELSE live]

\* a schedule that does not cancel the timer it replaces
enqueuePersist_NoCancel(handle, live) == [handle |-> "pending", live |-> live + 1]

\* enqueuePersist(): cancel, then schedule the write after PERSIST_DEBOUNCE_MS
enqueuePersist(handle, live) ==
    [handle |-> "pending", live |-> clearPersistTimer(handle, live).live + 1]

\* the options of applyConfig and updateConfig
ApplyOptions == [skipPersist : BOOLEAN, skipReload : BOOLEAN]

\* options = {}
NoOptions == [skipPersist |-> FALSE, skipReload |-> FALSE]

\* a persistence step that does not look at the option
PersistUnlessSkipped_Always(options, handle, live) == enqueuePersist(handle, live)

\* if (!options.skipPersist) this.enqueuePersist()
PersistUnlessSkipped(options, handle, live) ==
    IF options.skipPersist THEN [handle |-> handle, live |-> live]
    ELSE enqueuePersist(handle, live)

\* storage.set(id, STORAGE_SLOT, value)
StorageSet(value) ==
    [op |-> "storageSet", ch |-> <<>>, id |-> <<>>, body |-> <<value>>,
     author |-> NoAuthor, wasShown |-> FALSE]

\* { ...this.config, ...patch } for a single-field patch
Patched(cfg, patch) == [cfg EXCEPT ![patch.field] = patch.value]

\* JSON.stringify, as the value JSON.parse gives back: members whose value
\* is undefined are left out, in the object and in the entries of its arrays
JsonEntry(entry) ==
    [m \in {n \in DOMAIN entry : entry[n] # Undefined} |-> entry[m]]

\* the fields of the model that hold text, where undefined can stand
IsUndefined(value, f) ==
    f \notin {"enabled", "channelMode", "embeds"} /\ value[f] = Undefined

ToJson(value) ==
    [f \in {g \in DOMAIN value : ~IsUndefined(value, g)} |->
        IF f = "embeds" /\ IsArray(value[f])
        THEN [i \in 1..Len(value[f]) |-> JsonEntry(value[f][i])]
        ELSE value[f]]

\* JSON.parse of a well-formed text
FromJson(json) == json

\* What storage.get(id, STORAGE_SLOT) does:
\*   "value"     returns the slot's value (nothing when the slot is empty);
\*   "text"      returns the slot's value as JSON text;
\*   "nothing"   returns a falsy value;
\*   "malformed" returns a string that JSON.parse rejects;
\*   "raise"     raises
StorageGets == {"value", "text", "nothing", "malformed", "raise"}

\* a loadConfig without its try block
loadConfig_NoCatch(slot, get) ==
    IF get \in {"raise", "malformed"}
    THEN [config |-> getDefaultConfig, merged |-> <<>>, warned |-> FALSE, raised |-> TRUE]
    ELSE IF get = "nothing" \/ slot = <<>>
    THEN [config |-> getDefaultConfig, merged |-> <<>>, warned |-> FALSE, raised |-> FALSE]
    ELSE LET parsed == IF get = "text" THEN FromJson(ToJson(slot[1])) ELSE slot[1]
         IN  [config |-> mergeWithDefaults(parsed), merged |-> <<parsed>>,
              warned |-> FALSE, raised |-> FALSE]

\* loadConfig(): the configuration it returns, the value it merged (if any),
\* whether it logged a warning, whether it raised
loadConfig(slot, get) ==
    IF get \in {"raise", "malformed"}
    THEN [config |-> getDefaultConfig, merged |-> <<>>, warned |-> TRUE, raised |-> FALSE]
    ELSE IF get = "nothing" \/ slot = <<>>
    THEN [config |-> getDefaultConfig, merged |-> <<>>, warned |-> FALSE, raised |-> FALSE]
    ELSE LET parsed == IF get = "text" THEN FromJson(ToJson(slot[1])) ELSE slot[1]
         IN  [config |-> mergeWithDefaults(parsed), merged |-> <<parsed>>,
              warned |-> FALSE, raised |-> FALSE]

----------------------------------------------------------------------------
(* Reconciliation Engine *)

\* a gate that compares the target without validating it
shouldRenderInChannel_NoTargetCheck(cfg, channelId) ==
    IF ~cfg.enabled THEN FALSE
    ELSE IF ~isSnowflake(cfg.discordId) THEN FALSE
    ELSE IF Trim(cfg.messageContent) = <<>> THEN FALSE
    ELSE IF cfg.channelMode = "specific" THEN channelId = cfg.targetChannelId
    ELSE TRUE

\* a gate that does not look at the enabled switch
shouldRenderInChannel_IgnoresEnabled(cfg, channelId) ==
    IF ~isSnowflake(cfg.discordId) THEN FALSE
    ELSE IF Trim(cfg.messageContent) = <<>> THEN FALSE
    ELSE IF cfg.channelMode = "specific"
         THEN IF ~isSnowflake(cfg.targetChannelId) THEN FALSE
              ELSE channelId = cfg.targetChannelId
         ELSE TRUE

shouldRenderInChannel(cfg, channelId) ==
    IF ~cfg.enabled THEN FALSE
    ELSE IF ~isSnowflake(cfg.discordId) THEN FALSE
    ELSE IF Trim(cfg.messageContent) = <<>> THEN FALSE
    ELSE IF cfg.channelMode = "specific"
         THEN IF ~isSnowflake(cfg.targetChannelId) THEN FALSE
              ELSE channelId = cfg.targetChannelId
         ELSE TRUE

\* the id taken from the clock, as the nonce is
MessageId_Nonce(channelId) == MESSAGE_ID_PREFIX \o <<":", "now">>

\* `${MESSAGE_ID_PREFIX}:${channelId}`
MessageId(channelId) == MESSAGE_ID_PREFIX \o <<":">> \o channelId

\* a prefix that replaces the content
decorateContent_BadgeOnly(content, patched) ==
    IF patched THEN content ELSE <<"[">> \o LOCAL_BADGE_TEXT \o <<"]">>

decorateContent(content, patched) ==
    IF patched THEN content
    ELSE <<"[">> \o LOCAL_BADGE_TEXT \o <<"]", " ">> \o content

\* a retraction that forgets the entry without calling the collaborator
removeFakeMessage_NoCall(tbl, channelId) ==
    [tbl |-> MapDelete(tbl, channelId), calls |-> <<>>]

\* a retraction that is not keyed by the channel
removeFakeMessage_EveryChannel(tbl, channelId) ==
    [tbl |-> <<>>,
     calls |-> [i \in 1..Len(tbl) |-> dispatchMessageDelete(tbl[i].key, tbl[i].value)]]

\* removeFakeMessage(channelId): the table and the calls it makes
removeFakeMessage(tbl, channelId) ==
    IF ~MapHas(tbl, channelId)
    THEN [tbl |-> tbl, calls |-> <<>>]
    ELSE [tbl |-> MapDelete(tbl, channelId),
          calls |-> <<dispatchMessageDelete(channelId, MapGet(tbl, channelId))>>]

\* a clear that retracts the first entry only
clearInjectedMessages_FirstOnly(tbl) ==
    [tbl |-> <<>>,
     calls |-> IF tbl = <<>> THEN <<>>
               ELSE <<dispatchMessageDelete(tbl[1].key, tbl[1].value)>>]

\* clearInjectedMessages(): one removal per entry, in insertion order
clearInjectedMessages(tbl) ==
    [tbl |-> <<>>,
     calls |-> [i \in 1..Len(tbl) |-> dispatchMessageDelete(tbl[i].key, tbl[i].value)]]

\* What the identity lookup collaborator answers to userStore.getUser(id):
\*   "hit"   a user;  "throw"  it raises;
\*   "miss"  nothing, and the store has no fetchUser;
\*   "fetch" nothing, and userStore.fetchUser(id) is started
StoreAnswers == {"hit", "throw", "miss", "fetch"}

\* the answers of a user store that has a fetchUser
EngineAnswers == {"hit", "throw", "fetch"}

\* fetchUser(userId) up to its first await: the state of the promise it
\* returns and the cache
fetchUserSync(cache, userId, answer) ==
    LET trimmed == Trim(userId) IN
    IF trimmed = <<>> THEN [res |-> "null", cache |-> cache]
    ELSE IF trimmed \in cache THEN [res |-> "user", cache |-> cache]
    ELSE IF answer = "hit" THEN [res |-> "user", cache |-> cache \cup {trimmed}]
    ELSE IF answer = "throw" THEN [res |-> "threw", cache |-> cache]
    ELSE IF answer = "miss" THEN [res |-> "placeholder", cache |-> cache]
    ELSE [res |-> "fetching", cache |-> cache]

\* refreshChannel(channelIdRaw) up to its await: retract, decide, start the
\* build.  The suspended call is appended to the in-flight calls.
refreshChannelSync(tbl, cache, inflight, cfg, channelIdRaw, answer) ==
    IF channelIdRaw = <<>>
    THEN [tbl |-> tbl, cache |-> cache, pending |-> inflight, calls |-> <<>>]
    ELSE
    LET removed == removeFakeMessage(tbl, channelIdRaw) IN
    IF ~shouldRenderInChannel(cfg, channelIdRaw)
    THEN [tbl |-> removed.tbl, cache |-> cache, pending |-> inflight,
          calls |-> removed.calls]
    ELSE
    LET authorId == Trim(cfg.discordId)
        f == fetchUserSync(cache, authorId, answer)
    IN  [tbl |-> removed.tbl, cache |-> f.cache,
         pending |-> Append(inflight,
                        [ch |-> channelIdRaw, authorId |-> authorId, res |-> f.res]),
         calls |-> removed.calls]

RECURSIVE Handlers(_, _, _, _, _, _, _)
\* the event stream calls its n handlers of CHANNEL_SELECT, one after the
\* other; each calls refreshChannel(channelId)
Handlers(n, tbl, cache, inflight, cfg, channelId, answer) ==
    IF n = 0
    THEN [tbl |-> tbl, cache |-> cache, pending |-> inflight, calls |-> <<>>]
    ELSE LET first == refreshChannelSync(tbl, cache, inflight, cfg, channelId, answer)
             rest == Handlers(n - 1, first.tbl, first.cache, first.pending, cfg,
                              channelId, answer)
         IN  [rest EXCEPT !.calls = first.calls \o rest.calls]

\* refreshForCurrentChannel(force)
refreshForCurrentChannel(isStarted, force, tbl, cache, inflight, cfg, cur, answer) ==
    IF ~isStarted /\ ~force
    THEN [tbl |-> tbl, cache |-> cache, pending |-> inflight, calls |-> <<>>]
    ELSE refreshChannelSync(tbl, cache, inflight, cfg, cur, answer)

\* reapplyFakeMessages()
reapplyFakeMessages(isStarted, tbl, cache, inflight, cfg, cur, answer) ==
    IF ~isStarted
    THEN [tbl |-> tbl, cache |-> cache, pending |-> inflight, calls |-> <<>>]
    ELSE LET cleared == clearInjectedMessages(tbl)
             r == refreshForCurrentChannel(isStarted, TRUE, cleared.tbl, cache,
                                           inflight, cfg, cur, answer)
         IN  [r EXCEPT !.calls = cleared.calls \o r.calls]

\* buildFakeMessage(channelId) after its await: the message, or <<>> for null
buildFakeMessage(cfg, patched, channelId, authorId, known) ==
    LET baseContent == cfg.messageContent IN
    IF baseContent = <<>> THEN <<>>
    ELSE <<[id |-> MessageId(channelId),
            channel_id |-> channelId,
            author |-> [id |-> authorId, known |-> known],
            content |-> decorateContent(baseContent, patched)]>>

----------------------------------------------------------------------------
(* Initial state: the constructor *)

Init ==
    /\ config = getDefaultConfig
    /\ started = FALSE
    /\ channelSelectUnsub = FALSE
    /\ modulesReady = FALSE
    /\ timestampBadgePatched = FALSE
    /\ injectedMessages = <<>>
    /\ userCache = {}
    /\ persistTimer = "none"
    /\ timers = 0
    /\ wait = NoWait
    /\ startPc = "idle"
    /\ pending = <<>>
    /\ stored = <<>>
    /\ registered = 0
    /\ current \in EngineChannels \cup {<<>>}
    /\ calls = <<>>
    /\ shown = [c \in Channels |-> FALSE]
    /\ escaped = FALSE
    /\ last = NoRefresh

----------------------------------------------------------------------------
(* Identity Cache after the await, and the rest of refreshChannel *)

\* How a started userStore.fetchUser(id) settles
FetchOutcomes == {"user", "null", "reject"}

WarnFetchUser == <<"Failed to fetch user from cache - falling back to placeholder">>
WarnCreate == <<"Failed to create fake message">>
WarnLoad == <<"Failed to load config, reverting to defaults">>

\* this.warn(message, error)
Warn(message) ==
    [op |-> "warn", ch |-> <<>>, id |-> message, body |-> <<>>, author |-> NoAuthor,
     wasShown |-> FALSE]

\* a fetchUser whose await of userStore.fetchUser stands in no try block
fetchUserAwait_NoCatch(cache, rec, outcome) ==
    IF rec.res = "threw" \/ (rec.res = "fetching" /\ outcome = "reject")
    THEN [threw |-> TRUE, known |-> FALSE, cache |-> cache, calls |-> <<>>]
    ELSE IF rec.res = "user"
    THEN [threw |-> FALSE, known |-> TRUE, cache |-> cache, calls |-> <<>>]
    ELSE IF rec.res = "fetching" /\ outcome = "user"
    THEN [threw |-> FALSE, known |-> TRUE, cache |-> cache \cup {rec.authorId},
          calls |-> <<>>]
    ELSE [threw |-> FALSE, known |-> FALSE, cache |-> cache, calls |-> <<>>]

\* fetchUser(userId) from its await on: what the promise settles to
fetchUserAwait(cache, rec, outcome) ==
    \* userStore.getUser raised: the promise is rejected
    IF rec.res = "threw"
    THEN [threw |-> TRUE, known |-> FALSE, cache |-> cache, calls |-> <<>>]
    ELSE IF rec.res = "user"
    THEN [threw |-> FALSE, known |-> TRUE, cache |-> cache, calls |-> <<>>]
    ELSE IF rec.res = "fetching" /\ outcome = "user"
    THEN [threw |-> FALSE, known |-> TRUE, cache |-> cache \cup {rec.authorId},
          calls |-> <<>>]
    \* a rejected fetch is caught and logged: the placeholder { id }
    ELSE IF rec.res = "fetching" /\ outcome = "reject"
    THEN [threw |-> FALSE, known |-> FALSE, cache |-> cache,
          calls |-> <<Warn(WarnFetchUser)>>]
    \* no user: the placeholder { id }
    ELSE [threw |-> FALSE, known |-> FALSE, cache |-> cache, calls |-> <<>>]

\* refreshChannel from its await on: build, inject, record; catch and log
refreshChannelResume(tbl, cache, cfg, patched, rec, outcome) ==
    LET f == fetchUserAwait(cache, rec, outcome) IN
    IF f.threw
    THEN [tbl |-> tbl, cache |-> f.cache, calls |-> f.calls \o <<Warn(WarnCreate)>>,
          escaped |-> FALSE]
    ELSE
    LET fakeMessage == buildFakeMessage(cfg, patched, rec.ch, rec.authorId, f.known) IN
    IF fakeMessage = <<>>
    THEN [tbl |-> tbl, cache |-> f.cache, calls |-> f.calls, escaped |-> FALSE]
    ELSE [tbl |-> MapSet(tbl, rec.ch, fakeMessage[1].id), cache |-> f.cache,
          calls |-> f.calls \o <<ReceiveCall(fakeMessage[1])>>, escaped |-> FALSE]

\* messageActions.receiveMessage / dispatcher.dispatch called, and raising
ReceiveRaised(channelId) ==
    [op |-> "receiveRaised", ch |-> channelId, id |-> MessageId(channelId),
     body |-> <<>>, author |-> NoAuthor, wasShown |-> FALSE]

\* Where the rest of a refreshChannel may raise once fetchUser has returned:
\* "build" in buildFakeMessage (buildEmbeds or channelStore.getChannel),
\* "inject" in the injection collaborator
RaisePoints == {"build", "inject"}

\* a refreshChannel that records the entry before it injects
refreshChannelRaises_RecordsFirst(tbl, cache, cfg, rec, outcome, at) ==
    LET f == fetchUserAwait(cache, rec, outcome) IN
    [tbl |-> IF at = "inject" THEN MapSet(tbl, rec.ch, MessageId(rec.ch)) ELSE tbl,
     cache |-> f.cache,
     calls |-> f.calls
               \o (IF at = "inject" THEN <<ReceiveRaised(rec.ch)>> ELSE <<>>)
               \o <<Warn(WarnCreate)>>,
     escaped |-> FALSE]

\* refreshChannel from its await on when building or injecting raises: the
\* error is caught and logged, injectedMessages.set is not reached
refreshChannelRaises(tbl, cache, cfg, rec, outcome, at) ==
    LET f == fetchUserAwait(cache, rec, outcome) IN
    [tbl |-> tbl,
     cache |-> f.cache,
     calls |-> f.calls
               \o (IF at = "inject" THEN <<ReceiveRaised(rec.ch)>> ELSE <<>>)
               \o <<Warn(WarnCreate)>>,
     escaped |-> FALSE]

\* a continuation that is already settled runs as a microtask, in call order;
\* a started fetch settles whenever the host settles it
Settled(rec) == rec.res # "fetching"

CanResume(i) ==
    /\ i \in 1..Len(pending)
    /\ Settled(pending[i]) => \A j \in 1..(i - 1) : ~Settled(pending[j])

RemoveAt(s, i) == SubSeq(s, 1, i - 1) \o SubSeq(s, i + 1, Len(s))

\* A CHANNEL_SELECT payload.  Each property is <<>> when it is undefined or
\* null and <<v>> when it holds the string v (v = <<>> is the empty string);
\* channel is <<>> or <<[id |-> ...]>>; str is the payload itself when the
\* payload is a string (its properties are then undefined).
NoProperty == <<>>

ObjectPayload(channelId, channel, id) ==
    [channelId |-> channelId, channel |-> channel, id |-> id, str |-> NoProperty]

StringPayload(v) ==
    [channelId |-> NoProperty, channel |-> NoProperty, id |-> NoProperty, str |-> <<v>>]

\* payload?.channelId ?? payload?.channel?.id ?? payload?.id ??
\* (typeof payload === "string" ? payload : null): ?? passes over undefined
\* and null only
handlerChannelId(payload) ==
    IF payload.channelId # NoProperty THEN payload.channelId
    ELSE IF payload.channel # NoProperty /\ payload.channel[1].id # NoProperty
    THEN payload.channel[1].id
    ELSE IF payload.id # NoProperty THEN payload.id
    ELSE payload.str

\* if (channelId): a string is truthy when it is not empty
Truthy(value) == value # NoProperty /\ value[1] # <<>>

\* a subscribe that does not look at the handle it holds
subscribeToChannelChanges_NoHandleTest(hasDispatcher, held, hasApi) ==
    hasDispatcher /\ hasApi

\* subscribeToChannelChanges(): whether it registers a handler.  It returns
\* at once without a dispatcher or with a handle held, and registers only on
\* a dispatcher that has subscribe/unsubscribe or addListener/removeListener
subscribeToChannelChanges(hasDispatcher, held, hasApi) ==
    hasDispatcher /\ ~held /\ hasApi

----------------------------------------------------------------------------
(* Actions *)

\* The host selects channel c and dispatches CHANNEL_SELECT; the handler of
\* subscribeToChannelChanges calls refreshChannel(c).  What the step is noted
\* as in last is left to the caller.
HandlerCalls(c, answer) ==
    \E r \in {IF registered > 1
             THEN Handlers(registered, injectedMessages, userCache, pending, config, c, answer)
             ELSE IF registered > 0
             THEN refreshChannelSync(injectedMessages, userCache, pending, config, c, answer)
             ELSE [tbl |-> injectedMessages, cache |-> userCache,
                   pending |-> pending, calls |-> <<>>]} :
        /\ Len(r.pending) <= MaxPending
        /\ current' = c
        /\ injectedMessages' = r.tbl
        /\ userCache' = r.cache
        /\ pending' = r.pending
        /\ calls' = Stamp(shown, r.calls)
        /\ shown' = Record(shown, r.calls)
        /\ escaped' = FALSE
        /\ UNCHANGED <<wait, config, started, channelSelectUnsub, modulesReady,
                       timestampBadgePatched, persistTimer, timers, startPc, stored, registered>>

\* the channel-select event for channel c, noted as the refreshChannel call
\* of the handler
ChannelSelect(c, answer) ==
    /\ HandlerCalls(c, answer)
    /\ last' = IF registered > 0 THEN Called(c, pending, pending') ELSE NoRefresh

\* The event stream calls the handler with payload, which calls
\* refreshChannel(channelId) when the identifier it takes from the payload is
\* truthy, and nothing otherwise; the step is noted with the payload.
Dispatch(payload, answer) ==
    /\ registered > 0
    /\ IF Truthy(handlerChannelId(payload))
       THEN HandlerCalls(handlerChannelId(payload)[1], answer)
       ELSE /\ calls' = <<>>
            /\ escaped' = FALSE
            /\ UNCHANGED <<config, started, channelSelectUnsub, modulesReady,
                           timestampBadgePatched, injectedMessages, userCache, persistTimer,
                           timers, wait, startPc, pending, stored, registered, current, shown>>
    /\ last' = Dispatched(payload)

\* A suspended refreshChannel resumes.
Resume(i, outcome) ==
    /\ CanResume(i)
    /\ \E r \in {refreshChannelResume(injectedMessages, userCache, config,
                                        timestampBadgePatched, pending[i], outcome)} :
           /\ injectedMessages' = r.tbl
           /\ userCache' = r.cache
           /\ calls' = Stamp(shown, r.calls)
           /\ shown' = Record(shown, r.calls)
           /\ escaped' = r.escaped
    /\ last' = Resumed(pending[i], outcome)
    /\ pending' = RemoveAt(pending, i)
    /\ UNCHANGED <<wait, config, started, channelSelectUnsub, modulesReady,
                   timestampBadgePatched, persistTimer, timers, startPc, stored, registered,
                   current>>

\* A suspended refreshChannel resumes, fetchUser returns, and building or
\* injecting the item raises (there is an item to build: the content is not
\* empty).
ResumeRaises(i, outcome, at) ==
    /\ CanResume(i)
    /\ ~fetchUserAwait(userCache, pending[i], outcome).threw
    /\ config.messageContent # <<>>
    /\ \E r \in {refreshChannelRaises(injectedMessages, userCache, config, pending[i],
                                        outcome, at)} :
           /\ injectedMessages' = r.tbl
           /\ userCache' = r.cache
           /\ calls' = Stamp(shown, r.calls)
           /\ shown' = Record(shown, r.calls)
           /\ escaped' = r.escaped
    /\ last' = ResumeRaised(pending[i], outcome, at)
    /\ pending' = RemoveAt(pending, i)
    /\ UNCHANGED <<wait, config, started, channelSelectUnsub, modulesReady,
                   timestampBadgePatched, persistTimer, timers, startPc, stored, registered,
                   current>>

\* applyConfig(nextConfig, options): merge nextConfig ?? this.config, then
\* enqueuePersist and reapplyFakeMessages unless the options skip them.
\* next is <<>> for a null or missing nextConfig, else <<nextConfig>>.
\* What the step is noted as in last is left to the caller.
applyConfigOptions(next, options, answer) ==
    \E cfg \in {mergeWithDefaults(IF next = <<>> THEN config ELSE next[1])} :
    \E r \in {IF options.skipReload
               THEN [tbl |-> injectedMessages, cache |-> userCache, pending |-> pending,
                     calls |-> <<>>]
               ELSE reapplyFakeMessages(started, injectedMessages, userCache, pending,
                                        cfg, current, answer)} :
    \E t \in {PersistUnlessSkipped(options, persistTimer, timers)} :
        /\ config' = cfg
        /\ persistTimer' = t.handle
        /\ timers' = t.live
        /\ Len(r.pending) <= MaxPending
        /\ injectedMessages' = r.tbl
        /\ userCache' = r.cache
        /\ pending' = r.pending
        /\ calls' = Stamp(shown, r.calls)
        /\ shown' = Record(shown, r.calls)
        /\ escaped' = FALSE
        /\ UNCHANGED <<wait, started, channelSelectUnsub, modulesReady, timestampBadgePatched,
                       startPc, stored, registered, current>>

\* applyConfig(nextConfig), noted as the refreshChannel call it ends in
applyConfig(nextConfig, answer) ==
    /\ applyConfigOptions(<<nextConfig>>, NoOptions, answer)
    /\ last' = IF started THEN Called(current, pending, pending') ELSE NoRefresh

\* applyConfig(nextConfig, options) called by the host, noted with its
\* arguments
ApplyCall(next, options, answer) ==
    /\ applyConfigOptions(next, options, answer)
    /\ last' = ApplyCalled("applyConfig", next, options)

\* resetConfigToDefaults() called by the host, noted with the arguments it
\* passes to applyConfig
ResetCall(answer) ==
    /\ applyConfigOptions(<<getDefaultConfig>>, NoOptions, answer)
    /\ last' = ApplyCalled("resetConfigToDefaults", <<getDefaultConfig>>, NoOptions)

\* updateConfig(patch): { ...this.config, ...patch } applied
UpdateConfig(patch, answer) ==
    /\ config[patch.field] # patch.value
    /\ applyConfig(Patched(config, patch), answer)

\* resetConfigToDefaults()
ResetConfig(answer) ==
    applyConfig(getDefaultConfig, answer)

\* the oldest live timer fires: storage.set(id, STORAGE_SLOT, this.config).
\* The handle this.persistTimer holds is the newest timer's and is kept.
PersistFire ==
    /\ timers > 0
    /\ timers' = timers - 1
    /\ persistTimer' = IF persistTimer = "pending" /\ timers = 1 THEN "fired"
                       ELSE persistTimer
    /\ stored' = <<config>>
    /\ calls' = <<StorageSet(config)>>
    /\ escaped' = FALSE
    /\ last' = Persisted(stored)
    /\ UNCHANGED <<wait, config, started, channelSelectUnsub, modulesReady,
                   timestampBadgePatched, injectedMessages, userCache, startPc,
                   pending, registered, current, shown>>

\* waitForModule(match, timeout) is called
WaitCall(match, timeout) ==
    /\ wait.pc \in {"idle", "returned", "failed"}
    /\ wait' = [pc |-> "test", match |-> match, timeout |-> timeout, elapsed |-> 0,
                probes |-> 0, error |-> <<>>]
    /\ calls' = <<>>
    /\ escaped' = FALSE
    /\ last' = NoRefresh
    /\ UNCHANGED <<config, started, channelSelectUnsub, modulesReady,
                   timestampBadgePatched, injectedMessages, userCache, persistTimer,
                   timers, startPc, pending, stored, registered, current, shown>>

\* the loop test and, inside the window, one probe: it finds the module,
\* finds nothing, or raises (which is swallowed); past the window the error
WaitProbe(outcome) ==
    /\ wait.pc = "test"
    /\ wait' = IF WaitExpired(wait)
               THEN [wait EXCEPT !.pc = "failed", !.error = NotFound(wait.match)]
               ELSE IF outcome = "found"
               THEN [wait EXCEPT !.pc = "returned", !.probes = 1]
               ELSE [wait EXCEPT !.pc = "delay", !.probes = 1]
    /\ calls' = <<>>
    /\ escaped' = FALSE
    /\ last' = NoRefresh
    /\ UNCHANGED <<config, started, channelSelectUnsub, modulesReady,
                   timestampBadgePatched, injectedMessages, userCache, persistTimer,
                   timers, startPc, pending, stored, registered, current, shown>>

\* await this.delay(100) resolves, on time or late
WaitDelay(ticks) ==
    /\ wait.pc = "delay"
    /\ wait.elapsed < MaxTimeout + MaxLate
    /\ wait' = [wait EXCEPT !.pc = "test", !.elapsed = wait.elapsed + ticks]
    /\ calls' = <<>>
    /\ escaped' = FALSE
    /\ last' = NoRefresh
    /\ UNCHANGED <<config, started, channelSelectUnsub, modulesReady,
                   timestampBadgePatched, injectedMessages, userCache, persistTimer,
                   timers, startPc, pending, stored, registered, current, shown>>

\* stop()
Stop ==
    LET cleared == clearInjectedMessages(injectedMessages)
        unsub == IF channelSelectUnsub THEN <<OtherCall("unsubscribe")>> ELSE <<>>
    IN  /\ started' = FALSE
        /\ channelSelectUnsub' = FALSE
        /\ registered' = IF channelSelectUnsub THEN registered - 1 ELSE registered
        /\ timestampBadgePatched' = FALSE
        /\ injectedMessages' = cleared.tbl
        /\ persistTimer' = clearPersistTimer(persistTimer, timers).handle
        /\ timers' = clearPersistTimer(persistTimer, timers).live
        /\ calls' = Stamp(shown, unsub \o cleared.calls)
        /\ shown' = Record(shown, cleared.calls)
        /\ escaped' = FALSE
        /\ last' = [Stopped(injectedMessages) EXCEPT !.again = (last.op = "stop")]
        /\ UNCHANGED <<wait, config, modulesReady, userCache, startPc, pending, stored, current>>

\* stop() when the removal collaborator raises at the k-th entry:
\* clearInjectedMessages() has no try block, so the error leaves stop() before
\* injectedMessages.clear() and clearPersistTimer()
StopRaises(k) ==
    LET cleared == clearInjectedMessages(injectedMessages)
        unsub == IF channelSelectUnsub THEN <<OtherCall("unsubscribe")>> ELSE <<>>
    IN  /\ k \in 1..Len(injectedMessages)
        /\ started' = FALSE
        /\ channelSelectUnsub' = FALSE
        /\ registered' = IF channelSelectUnsub THEN registered - 1 ELSE registered
        /\ timestampBadgePatched' = FALSE
        /\ calls' = Stamp(shown, unsub \o SubSeq(cleared.calls, 1, k))
        /\ shown' = Record(shown, SubSeq(cleared.calls, 1, k - 1))
        /\ escaped' = TRUE
        /\ last' = [Stopped(injectedMessages) EXCEPT !.again = (last.op = "stop")]
        /\ UNCHANGED <<wait, config, modulesReady, userCache, startPc, pending, stored,
                       current, injectedMessages, persistTimer, timers>>

WarnUnsubscribe == <<"Failed to unsubscribe from CHANNEL_SELECT">>

\* stop() when this.channelSelectUnsub() raises, after the event stream
\* detached the handler (removed) or before: unsubscribeFromChannelChanges
\* catches and logs the error, clears the handle, and stop() goes on
StopUnsubRaises(removed) ==
    LET cleared == clearInjectedMessages(injectedMessages) IN
    /\ channelSelectUnsub
    /\ removed \/ registered < MaxHandlers
    /\ started' = FALSE
    /\ channelSelectUnsub' = FALSE
    /\ registered' = IF removed THEN registered - 1 ELSE registered
    /\ timestampBadgePatched' = FALSE
    /\ injectedMessages' = cleared.tbl
    /\ persistTimer' = clearPersistTimer(persistTimer, timers).handle
    /\ timers' = clearPersistTimer(persistTimer, timers).live
    /\ calls' = Stamp(shown, <<OtherCall("unsubscribe"), Warn(WarnUnsubscribe)>> \o cleared.calls)
    /\ shown' = Record(shown, cleared.calls)
    /\ escaped' = FALSE
    /\ last' = [Stopped(injectedMessages) EXCEPT !.again = (last.op = "stop")]
    /\ UNCHANGED <<wait, config, modulesReady, userCache, startPc, pending, stored, current>>

\* start() up to the first await of bootstrap()
Start(get) ==
    /\ startPc = "idle"
    /\ LET r == loadConfig(stored, get) IN
        /\ config' = IF r.raised THEN config ELSE r.config
        /\ started' = IF r.raised THEN started ELSE TRUE
        /\ startPc' = IF r.raised THEN startPc ELSE "ensureModules"
        /\ calls' = IF r.warned THEN <<Warn(WarnLoad)>> ELSE <<>>
        /\ escaped' = r.raised
        /\ last' = Loaded(r.merged, get)
    /\ UNCHANGED <<wait, channelSelectUnsub, modulesReady, timestampBadgePatched,
                   injectedMessages, userCache, persistTimer, timers, pending, stored,
                   registered, current, shown>>

ErrorStart == <<"Failed to start FakeMessageComposer">>

\* this.error(message, error)
LogError(message) ==
    [op |-> "error", ch |-> <<>>, id |-> message, body |-> <<>>, author |-> NoAuthor,
     wasShown |-> FALSE]

\* ensureModules() settles: the modules are found, or a wait runs out (or
\* React is unavailable) and start() catches and logs the error
EnsureModulesDone(found) ==
    /\ startPc = "ensureModules"
    /\ found \/ ~modulesReady
    /\ modulesReady' = (modulesReady \/ found)
    /\ startPc' = IF found THEN "patchTimestampBadge" ELSE "idle"
    /\ calls' = IF found THEN <<>> ELSE <<LogError(ErrorStart)>>
    /\ escaped' = FALSE
    /\ last' = IF found THEN NoRefresh ELSE StartFailed
    /\ UNCHANGED <<wait, config, started, channelSelectUnsub, timestampBadgePatched,
                   injectedMessages, userCache, persistTimer, timers, pending, stored,
                   registered, current, shown>>

\* patchTimestampBadge() settles (patched or not); bootstrap() goes on with
\* subscribeToChannelChanges() and refreshForCurrentChannel(true)
BootstrapDone(patched, hasApi, answer) ==
    /\ startPc = "patchTimestampBadge"
    /\ \E subscribes \in {subscribeToChannelChanges(modulesReady, channelSelectUnsub, hasApi)} :
       \E r \in {refreshForCurrentChannel(started, TRUE, injectedMessages, userCache,
                                          pending, config, current, answer)} :
           /\ Len(r.pending) <= MaxPending
           /\ channelSelectUnsub' = (channelSelectUnsub \/ subscribes)
           /\ registered' = IF subscribes THEN registered + 1 ELSE registered
           /\ injectedMessages' = r.tbl
           /\ userCache' = r.cache
           /\ pending' = r.pending
           /\ calls' = Stamp(shown, (IF subscribes THEN <<OtherCall("subscribe")>> ELSE <<>>) \o r.calls)
           /\ shown' = Record(shown, r.calls)
           /\ last' = Called(current, pending, r.pending)
    /\ timestampBadgePatched' = patched
    /\ startPc' = "idle"
    /\ escaped' = FALSE
    /\ UNCHANGED <<wait, config, started, modulesReady, persistTimer, timers, stored, current>>

\* bootstrap() past patchTimestampBadge() when a collaborator raises: either
\* dispatcher.subscribe (at = "subscribe", nothing registered and no handle
\* kept) or, after subscribing, the selected-channel store read by
\* getCurrentChannelId (at = "current"); start() catches and logs the error
BootstrapFails(patched, at) ==
    /\ startPc = "patchTimestampBadge"
    /\ at = "subscribe" => ~channelSelectUnsub
    /\ LET subscribes == ~channelSelectUnsub /\ at = "current" IN
        /\ channelSelectUnsub' = (channelSelectUnsub \/ subscribes)
        /\ registered' = IF subscribes THEN registered + 1 ELSE registered
        /\ calls' = (IF ~channelSelectUnsub THEN <<OtherCall("subscribe")>> ELSE <<>>)
                       \o <<LogError(ErrorStart)>>
    /\ timestampBadgePatched' = patched
    /\ startPc' = "idle"
    /\ escaped' = FALSE
    /\ last' = StartFailed
    /\ UNCHANGED <<wait, config, started, modulesReady, persistTimer, timers, stored, current,
                   injectedMessages, userCache, pending, shown>>

\* subscribeToChannelChanges() called by the host
Subscribe(hasApi) ==
    LET subscribes == subscribeToChannelChanges(modulesReady, channelSelectUnsub, hasApi) IN
    /\ channelSelectUnsub' = (channelSelectUnsub \/ subscribes)
    /\ registered' = IF subscribes THEN registered + 1 ELSE registered
    /\ calls' = IF subscribes THEN <<OtherCall("subscribe")>> ELSE <<>>
    /\ escaped' = FALSE
    /\ last' = SubscribeCalled(channelSelectUnsub)
    /\ UNCHANGED <<wait, config, started, modulesReady, timestampBadgePatched,
                   injectedMessages, userCache, persistTimer, timers, startPc, pending,
                   stored, current, shown>>

----------------------------------------------------------------------------
(* Inputs that are read *)

NoInput == {"none"}

\* fetchUser reaches userStore.getUser only past the gate and a cache miss
AnswersFor(answers, reaches, cfg, channelId) ==
    IF /\ reaches
       /\ channelId # <<>>
       /\ shouldRenderInChannel(cfg, channelId)
       /\ Trim(cfg.discordId) # <<>>
       /\ Trim(cfg.discordId) \notin userCache
    THEN answers ELSE NoInput

\* only a started userStore.fetchUser has an outcome
OutcomesFor(i) ==
    IF i \in 1..Len(pending) /\ pending[i].res = "fetching" THEN FetchOutcomes ELSE NoInput

----------------------------------------------------------------------------
(* Specifications *)

Engine(channels, answers) ==
    \/ \E c \in channels :
          \E answer \in AnswersFor(answers, registered > 0, config, c) :
             ChannelSelect(c, answer)
    \/ \E i \in 1..MaxPending : \E outcome \in OutcomesFor(i) : Resume(i, outcome)

Settings(patches, answers) ==
    \/ \E patch \in patches :
          \E answer \in AnswersFor(answers, started,
                                    mergeWithDefaults(Patched(config, patch)), current) :
             UpdateConfig(patch, answer)
    \/ \E answer \in AnswersFor(answers, started, getDefaultConfig, current) :
          ResetConfig(answer)

Lifecycle(founds, apis, answers) ==
    \/ Stop
    \/ Start("value")
    \/ \E found \in founds : EnsureModulesDone(found)
    \/ \E patched \in BOOLEAN, hasApi \in apis :
          \E answer \in AnswersFor(answers, TRUE, config, current) :
             BootstrapDone(patched, hasApi, answer)

\* The plugin from its constructor on: channel selections, settings edits,
\* start and stop.  The user store here always has a fetchUser.
Next ==
    \/ Engine(EngineChannels, EngineAnswers)
    \/ Settings(Patches, EngineAnswers)
    \/ Lifecycle({TRUE}, {TRUE}, EngineAnswers)

Spec == Init /\ [][Next]_vars

\* A started, subscribed plugin whose configuration was loaded from any stored
\* value: channel selections only, under every field combination of the gate.
IdShort == <<"1", "2", "3", "4">>
IdLetter == <<"1", "2", "3", "4", "a">>
IdSpaced == <<" ">> \o Id12345
Blank == <<" ">>

GateConfigs ==
    [enabled : BOOLEAN,
     discordId : {<<>>, IdShort, IdLetter, Id12345, IdSpaced},
     messageContent : {DefaultContent, <<>>, Blank},
     channelMode : {"any", "specific"},
     targetChannelId : {<<>>, Ch111, Ch11111},
     embeds : {<<>>}]

InitGate ==
    /\ config \in {loadConfig(<<cfg>>, "value").config : cfg \in GateConfigs}
    /\ started = TRUE
    /\ channelSelectUnsub = TRUE
    /\ modulesReady = TRUE
    /\ timestampBadgePatched = FALSE
    /\ injectedMessages = <<>>
    /\ userCache = {}
    /\ persistTimer = "none"
    /\ timers = 0
    /\ wait = NoWait
    /\ startPc = "idle"
    /\ pending = <<>>
    /\ stored = <<>>
    /\ registered = 1
    /\ current = <<>>
    /\ calls = <<>>
    /\ shown = [c \in Channels |-> FALSE]
    /\ escaped = FALSE
    /\ last = NoRefresh

NextGate == Engine(Channels, StoreAnswers)

SpecGate == InitGate /\ [][NextGate]_vars

\* A started, subscribed plugin whose configuration passes the gate in every
\* channel, and whose channel store and injection collaborator may raise.
InitInject ==
    /\ InitGate
    /\ config.enabled
    /\ config.discordId = Id12345
    /\ config.messageContent = DefaultContent
    /\ config.channelMode = "any"
    /\ config.targetChannelId = <<>>

NextInject ==
    \/ NextGate
    \/ \E i \in 1..MaxPending : \E outcome \in OutcomesFor(i), at \in RaisePoints :
          ResumeRaises(i, outcome, at)

SpecInject == InitInject /\ [][NextInject]_vars

\* The payloads the event stream hands the handler: objects with any of
\* channelId, channel.id and id, each naming a different channel when it is
\* there (channelId and id may also be the empty string, channel may lack
\* its id), and strings.
Payloads ==
    {ObjectPayload(a, b, c) :
        a \in {NoProperty, <<<<>>>>, <<Ch111>>},
        b \in {NoProperty, <<[id |-> NoProperty]>>, <<[id |-> <<Ch222>>]>>},
        c \in {NoProperty, <<<<>>>>, <<Ch11111>>}}
    \cup {StringPayload(v) : v \in {<<>>, Ch222}}

\* A started, subscribed plugin whose configuration passes the gate in every
\* channel, and whose handler is called with any payload.
NextPayload ==
    \/ \E payload \in Payloads :
          \E answer \in AnswersFor({"hit", "fetch"}, Truthy(handlerChannelId(payload)), config,
                                   IF Truthy(handlerChannelId(payload))
                                   THEN handlerChannelId(payload)[1] ELSE <<>>) :
             Dispatch(payload, answer)
    \/ \E i \in 1..MaxPending : \E outcome \in OutcomesFor(i) : Resume(i, outcome)

SpecPayload == InitInject /\ [][NextPayload]_vars

\* The plugin with collaborators that fail: the dependency waits may run out,
\* dispatcher.subscribe and the selected-channel store may raise during
\* start(), and the removal collaborator or the unsubscribe call may raise
\* during stop().
Faults ==
    \/ \E k \in 1..Cardinality(EngineChannels) : StopRaises(k)
    \/ \E patched \in BOOLEAN, at \in {"subscribe", "current"} : BootstrapFails(patched, at)
    \/ \E removed \in BOOLEAN : StopUnsubRaises(removed)

NextFault ==
    \/ Engine(EngineChannels, {"hit"})
    \/ Settings(Patches, {"hit"})
    \/ Lifecycle(BOOLEAN, {TRUE}, {"hit"})
    \/ Faults

SpecFault == Init /\ [][NextFault]_vars

\* start(), stop() and subscribeToChannelChanges() in every order, with a
\* dependency resolution that may fail and a dispatcher that may lack the
\* subscription API; collaborators do not raise.
NextLifecycle ==
    \/ Lifecycle(BOOLEAN, BOOLEAN, {"hit"})
    \/ \E hasApi \in BOOLEAN : Subscribe(hasApi)
    \/ Engine(EngineChannels, {"hit"})
    \/ Settings(Patches, {"hit"})

SpecLifecycle == Init /\ [][NextLifecycle]_vars

\* A started, subscribed plugin whose settings are edited while the debounce
\* timer runs, fires, or is cancelled by stop().  Here the configuration
\* changes by applyConfig only.
InitPersist ==
    /\ config = getDefaultConfig
    /\ started = TRUE
    /\ channelSelectUnsub = TRUE
    /\ modulesReady = TRUE
    /\ timestampBadgePatched = FALSE
    /\ injectedMessages = <<>>
    /\ userCache = {}
    /\ persistTimer = "none"
    /\ timers = 0
    /\ wait = NoWait
    /\ startPc = "idle"
    /\ pending = <<>>
    /\ stored = <<>>
    /\ registered = 1
    /\ current \in EngineChannels
    /\ calls = <<>>
    /\ shown = [c \in Channels |-> FALSE]
    /\ escaped = FALSE
    /\ last = NoRefresh

NextPersist ==
    \/ Settings(Patches, {"hit"})
    \/ PersistFire
    \/ Stop
    \/ Engine(EngineChannels, {"hit"})

SpecPersist == InitPersist /\ [][NextPersist]_vars

\* the host fires a live timer in the end
FairPersist == SpecPersist /\ WF_vars(PersistFire)

\* waitForModule calls, one at a time, over every descriptor and timeout; the
\* host runs a probe or resolves a delay whenever one is due
ProbeOutcomes == {"found", "nothing", "raise"}

WaitStep ==
    \/ \E outcome \in ProbeOutcomes : WaitProbe(outcome)
    \/ \E ticks \in 1..MaxLate : WaitDelay(ticks)

NextWait ==
    \/ \E match \in Matches, timeout \in 0..MaxTimeout : WaitCall(match, timeout)
    \/ WaitStep

SpecWait == Init /\ [][NextWait]_vars

FairWait == SpecWait /\ WF_vars(WaitStep)

\* start() over every stored value and every behaviour of storage.get: the
\* slot may hold any object, with Configuration fields missing, undefined or
\* of the wrong shape, and with a field the Configuration does not have.
Part(field, values) == {<<>>} \cup {field :> v : v \in values}

RawEmbeds ==
    {<<>>, NotArray,
     <<[label |-> <<"docs">>, url |-> <<"https://e.x">>]>>,
     <<[label |-> <<"docs">>]>>,
     <<[label |-> Undefined, url |-> <<"https://e.x">>]>>}

ConfigLikes ==
    {a @@ b @@ c @@ d @@ e :
        a \in Part("enabled", BOOLEAN),
        b \in Part("discordId", {Id12345, Undefined}),
        c \in Part("messageContent", {<<>>}),
        d \in Part("embeds", RawEmbeds),
        e \in Part("theme", {<<"dark">>})}

InitConfig ==
    /\ config = getDefaultConfig
    /\ started = FALSE
    /\ channelSelectUnsub = FALSE
    /\ modulesReady = FALSE
    /\ timestampBadgePatched = FALSE
    /\ injectedMessages = <<>>
    /\ userCache = {}
    /\ persistTimer = "none"
    /\ timers = 0
    /\ wait = NoWait
    /\ startPc = "idle"
    /\ pending = <<>>
    /\ stored \in {<<>>} \cup {<<x>> : x \in ConfigLikes}
    /\ registered = 0
    /\ current = <<>>
    /\ calls = <<>>
    /\ shown = [c \in Channels |-> FALSE]
    /\ escaped = FALSE
    /\ last = NoRefresh

NextConfig ==
    \/ \E get \in StorageGets : Start(get)
    \/ EnsureModulesDone(FALSE)
    \/ Stop

SpecConfig == InitConfig /\ [][NextConfig]_vars

\* the nextConfig arguments of applyConfig: none (null), or an object with
\* any of the fields enabled and discordId
ApplyLikes ==
    {a @@ b : a \in Part("enabled", {FALSE}), b \in Part("discordId", {Id12345})}

ApplyArguments == {<<>>} \cup {<<x>> : x \in ApplyLikes}

\* A started, subscribed plugin whose configuration is applied and reset
\* under every combination of the options, while the debounce timer
\* runs, fires, or is cancelled by stop().
NextOptions ==
    \/ \E next \in ApplyArguments, options \in ApplyOptions :
          \E answer \in AnswersFor({"hit"}, started /\ ~options.skipReload,
                                    mergeWithDefaults(IF next = <<>> THEN config
                                                      ELSE next[1]), current) :
             ApplyCall(next, options, answer)
    \/ \E answer \in AnswersFor({"hit"}, started, getDefaultConfig, current) :
          ResetCall(answer)
    \/ PersistFire
    \/ Stop
    \/ Engine(EngineChannels, {"hit"})

SpecOptions == InitPersist /\ [][NextOptions]_vars

\* A started, subscribed plugin to which one of two configurations is
\* applied, wholesale, at any time; the two differ in the source identity
\* and in the content, and both pass the gate in every channel.
Id67890 == <<"6", "7", "8", "9", "0">>
OtherContent == <<"Another text.">>

SnapshotConfigs ==
    {[getDefaultConfig EXCEPT !.discordId = Id12345],
     [getDefaultConfig EXCEPT !.discordId = Id67890, !.messageContent = OtherContent]}

NextSnapshot ==
    \/ \E next \in SnapshotConfigs :
          \E answer \in AnswersFor({"hit", "fetch"}, started, mergeWithDefaults(next), current) :
             applyConfig(next, answer)
    \/ Engine(EngineChannels, {"hit", "fetch"})

SpecSnapshot == InitPersist /\ [][NextSnapshot]_vars

\* A started, subscribed plugin whose configuration changes by applyConfig
\* with its reload only (the settings panel, resetConfigToDefaults), at any
\* time, also while refreshChannel calls are suspended.
NextReconcile ==
    \/ Settings(Patches, {"hit", "fetch"})
    \/ Engine(EngineChannels, {"hit", "fetch"})

SpecReconcile == InitPersist /\ [][NextReconcile]_vars

----------------------------------------------------------------------------
(* Claims *)

ReceiveCalls == {i \in 1..Len(calls) : calls[i].op = "receive"}
DeleteCalls == {i \in 1..Len(calls) : calls[i].op = "delete"}
Warned(message) == \E i \in 1..Len(calls) : calls[i].op = "warn" /\ calls[i].id = message

Deletes(cs) == SelectSeq(cs, LAMBDA x : x.op = "delete")
Receives(cs) == SelectSeq(cs, LAMBDA x : x.op = "receive")

\* C1: in every reachable state, and so whenever a refreshChannel(c) call has
\* completed, the Active-Injection Table holds at most one entry for each
\* channel c.
C1_AtMostOneEntry ==
    \A c \in Channels : Len(EntriesFor(injectedMessages, c)) <= 1

\* a refresh has just recorded channel c while the table already held c, and
\* the table holds one entry for c
C1_Witness ==
    \E i \in ReceiveCalls :
        /\ calls[i].wasShown
        /\ Len(EntriesFor(injectedMessages, calls[i].ch)) = 1

\* C2: injection and removal calls for a channel strictly alternate, starting
\* with an injection: no injection for c while the last call for c was an
\* injection, no removal for c unless the last call for c was an injection.
C2_StrictAlternation ==
    /\ \A i \in ReceiveCalls : ~calls[i].wasShown
    /\ \A i \in DeleteCalls : calls[i].wasShown

\* C3: a refreshChannel(c) called while the configuration has enabled = false
\* leaves no table entry for c, does not reach its await and calls no
\* injection.
C3_DisabledStaysAbsent ==
    (last.op = "refreshChannel" /\ ~config.enabled) =>
        /\ ~MapHas(injectedMessages, last.ch)
        /\ ~last.suspended
        /\ ReceiveCalls = {}

\* a started, subscribed and disabled plugin has just retracted the item of
\* its current channel
C3_Witness ==
    /\ ~config.enabled
    /\ last.op = "refreshChannel"
    /\ \E i \in DeleteCalls : calls[i].ch = last.ch

AllDigits(v) == \A i \in 1..Len(v) : v[i] \in Digits

\* an all-digit string of length >= 5
ValidIdentifier(v) == Len(v) >= 5 /\ AllDigits(v)

\* the decision gate as the claim states it
ClaimedGate(cfg, c) ==
    /\ cfg.enabled
    /\ ValidIdentifier(cfg.discordId)
    /\ Trim(cfg.messageContent) # <<>>
    /\ cfg.channelMode = "specific" =>
          (ValidIdentifier(cfg.targetChannelId) /\ c = cfg.targetChannelId)

\* the decision gate with identifiers validated after trimming
TrimmedGate(cfg, c) ==
    /\ cfg.enabled
    /\ ValidIdentifier(Trim(cfg.discordId))
    /\ Trim(cfg.messageContent) # <<>>
    /\ cfg.channelMode = "specific" =>
          (ValidIdentifier(Trim(cfg.targetChannelId)) /\ c = cfg.targetChannelId)

ScenarioB(cfg, target) ==
    /\ cfg.enabled
    /\ isSnowflake(cfg.discordId)
    /\ Trim(cfg.messageContent) # <<>>
    /\ cfg.channelMode = "specific"
    /\ cfg.targetChannelId = target

ScenarioA(cfg) ==
    /\ cfg.enabled
    /\ isSnowflake(cfg.discordId)
    /\ Trim(cfg.messageContent) # <<>>
    /\ cfg.channelMode = "any"

\* C6: under an enabled configuration with a valid sourceIdentity, non-empty
\* content and scope any, a refreshChannel(c) reaches its await, and when it
\* resumes (the identity lookup not having raised) it makes exactly one
\* injection call, for c, records c, and the body contains the content.
C6_ScenarioA ==
    /\ (last.op = "refreshChannel" /\ ScenarioA(config)) => last.suspended
    /\ (last.op = "resume" /\ last.identity # "raised" /\ ScenarioA(config)) =>
          /\ Len(Receives(calls)) = 1
          /\ Receives(calls)[1].ch = last.ch
          /\ MapHas(injectedMessages, last.ch)
          /\ Contains(Receives(calls)[1].body, config.messageContent)

\* an item was injected with the badge prefix before the content
C6_Witness ==
    /\ ScenarioA(config)
    /\ last.op = "resume"
    /\ \E i \in ReceiveCalls :
          /\ calls[i].ch = last.ch
          /\ calls[i].body # config.messageContent
          /\ Contains(calls[i].body, config.messageContent)

ExpectedId(c) == <<"fake-message-composer", ":">> \o c

\* C7: whenever a refreshChannel(c) completes with an injection, whether or
\* not an earlier call had already recorded c, the table holds exactly one
\* entry for c, with the id derived from c; a call turned away at the gate
\* leaves none.
C7_Idempotent ==
    /\ \A i \in ReceiveCalls :
          /\ calls[i].id = ExpectedId(calls[i].ch)
          /\ EntriesFor(injectedMessages, calls[i].ch) =
                <<[key |-> calls[i].ch, value |-> ExpectedId(calls[i].ch)]>>
    /\ (last.op = "refreshChannel" /\ ~last.suspended) =>
          ~MapHas(injectedMessages, last.ch)

\* the second of two overlapping refreshChannel(c) calls has completed after
\* the first, and no call for c is left
C7_Witness ==
    \E i \in ReceiveCalls :
        /\ calls[i].wasShown
        /\ \A j \in 1..Len(pending) : pending[j].ch # calls[i].ch
        /\ last.op = "resume"

\* C8 as stated: when the identity lookup raises (userStore.fetchUser rejects
\* or userStore.getUser raises), no injection call is made and no exception
\* escapes refreshChannel.
C8_FetchThrowsAsClaimed ==
    (last.op = "resume" /\ last.identity \in {"rejected", "raised"}) =>
        (ReceiveCalls = {} /\ ~escaped)

\* C8 amended: when userStore.fetchUser rejects, the rejection is caught and
\* logged by fetchUser and the item is built with the placeholder identity,
\* injected and recorded (unless the content is empty by then); when
\* userStore.getUser raises, no injection call is made; in both cases no
\* exception escapes refreshChannel.
C8_FetchThrows ==
    /\ (last.op = "resume" /\ last.identity = "rejected") =>
          /\ ~escaped
          /\ Warned(WarnFetchUser)
          /\ config.messageContent # <<>> =>
                /\ Len(Receives(calls)) = 1
                /\ Receives(calls)[1].ch = last.ch
                /\ ~Receives(calls)[1].author.known
                /\ MapHas(injectedMessages, last.ch)
          /\ config.messageContent = <<>> => ReceiveCalls = {}
    /\ (last.op = "resume" /\ last.identity = "raised") =>
          /\ ~escaped
          /\ Warned(WarnCreate)
          /\ ReceiveCalls = {}

\* a rejected fetch has ended in an injected item of the placeholder identity
C8_Witness ==
    /\ last.op = "resume"
    /\ last.identity = "rejected"
    /\ \E i \in ReceiveCalls : ~calls[i].author.known

\* C9: stop() leaves the table empty and calls the removal collaborator once
\* per entry the table held, with that entry's channel and saved id.
C9_StopDrains ==
    last.op = "stop" =>
        /\ injectedMessages = <<>>
        /\ Len(Deletes(calls)) = Len(last.held)
        /\ \A i \in 1..Len(last.held) :
              /\ Deletes(calls)[i].ch = last.held[i].key
              /\ Deletes(calls)[i].id = last.held[i].value
        /\ \A i, j \in 1..Len(last.held) :
              last.held[i].key = last.held[j].key => i = j

\* stop() has just retracted the items of two channels
C9_Witness ==
    /\ last.op = "stop"
    /\ Len(last.held) = 2
    /\ injectedMessages = <<>>
    /\ Cardinality(DeleteCalls) = 2
    /\ \E i, j \in DeleteCalls : calls[i].ch # calls[j].ch

\* C10: no dangling state survives a stop: a refreshChannel that resumes while
\* the plugin is stopped (no start() in flight, no listener registered)
\* injects nothing and leaves the table empty.
C10_NoDanglingAfterStop ==
    (~started /\ startPc = "idle" /\ registered = 0 /\ last.op = "resume") =>
        (ReceiveCalls = {} /\ injectedMessages = <<>>)

\* C11: stop() never raises, in any state, and a stop() that immediately
\* follows another stop() finds an empty table and calls no collaborator.
C11_StopIsSafe ==
    last.op = "stop" =>
        /\ ~escaped
        /\ last.again => (calls = <<>> /\ last.held = <<>>)

\* C12: when start() fails, the plugin is left as stopped: the started flag
\* is false, no channel-select handler is registered and the table is empty.
C12_FailedStartIsStopped ==
    last.op = "startFailed" =>
        /\ ~started
        /\ registered = 0
        /\ ~channelSelectUnsub
        /\ injectedMessages = <<>>

SetCalls == {i \in 1..Len(calls) : calls[i].op = "storageSet"}

\* C13: however many applyConfig calls were made since the last write, one
\* timer is live (the one this.persistTimer holds) and none once it has
\* fired; its firing makes exactly one storage.set call, with the
\* configuration of the last call, which is what the slot then holds.
C13_Debounce ==
    /\ timers = (IF persistTimer = "pending" THEN 1 ELSE 0)
    /\ last.op = "persist" =>
          /\ Cardinality(SetCalls) = 1
          /\ \A i \in SetCalls : calls[i].body = <<config>>
          /\ stored = <<config>>
          /\ timers = 0
    /\ persistTimer = "fired" => stored = <<config>>

\* the first write ever, after two updateConfig calls in its window
C13_Witness ==
    /\ last.op = "persist"
    /\ last.held = <<>>
    /\ config.enabled
    /\ config.discordId = Id12345
    /\ stored = <<config>>

\* the configurations the settings edits of Patches reach from the defaults
PatchedConfigs ==
    {[getDefaultConfig EXCEPT !.enabled = e, !.discordId = d, !.messageContent = m] :
        e \in BOOLEAN, d \in {<<>>, Id12345}, m \in {DefaultContent, <<>>}}

\* C14: a configuration applied with its write scheduled is written to the
\* slot in the end unless a later application replaces it, also when stop()
\* is called before the timer fires.
C14_EventuallyWritten ==
    \A cfg \in PatchedConfigs :
        []((persistTimer = "pending" /\ config = cfg)
              => <>(stored = <<cfg>> \/ config # cfg))

\* the configuration read back from its JSON text and merged
RoundTrip(cfg) == mergeWithDefaults(FromJson(ToJson(cfg)))

\* no field of the configuration is undefined
JsonSafe(cfg) ==
    \A f \in DOMAIN cfg : ~IsUndefined(cfg, f)

C16_LoadedFields ==
    last.op = "load" =>
        /\ DOMAIN config = ConfigFields
        /\ \A f \in ConfigFields :
              (last.held = <<>> \/ f \notin DOMAIN last.held[1]) =>
                  config[f] = getDefaultConfig[f]

\* C17: loadConfig() never raises, and returns the default configuration
\* when storage.get returns nothing, raises, or returns a string that does
\* not parse.
C17_LoadFailsSoft ==
    last.op = "load" =>
        /\ ~escaped
        /\ (last.get \in {"nothing", "raise", "malformed"} \/ stored = <<>>) =>
              config = getDefaultConfig

\* a stored value was there, storage.get returned a string that does not
\* parse, and the defaults were taken with a warning
C17_Witness ==
    /\ last.op = "load"
    /\ last.get = "malformed"
    /\ stored # <<>>
    /\ Warned(WarnLoad)
    /\ config = getDefaultConfig

\* C18: a step that changes the configuration while the plugin is started
\* (applyConfig with reconciliation) calls the removal collaborator for the
\* current channel only and leaves the table entries of every other channel
\* as they were.
C18_OnlyCurrentChannel ==
    [][(started /\ config' # config) =>
         /\ \A i \in 1..Len(calls') :
               calls'[i].op = "delete" => calls'[i].ch = current
         /\ \A c \in Channels \ {current} :
               EntriesFor(injectedMessages', c) = EntriesFor(injectedMessages, c)]_vars

\* C19: once fetchUser(id) has returned for a non-empty trimmed id, the cache
\* holds an entry for that id, the placeholder included.
C19_AlwaysCached ==
    (last.op = "resume" /\ last.identity # "raised") =>
        \A id \in {last.held[i] : i \in 1..Len(last.held)} :
            id # <<>> => id \in userCache

\* C20: a waitForModule call returns only after a probe inside the window,
\* fails only once the timeout has elapsed, then with the error that names
\* the descriptor, and every call returns or fails in the end.
C20_ResolverTerminates ==
    /\ [](wait.pc = "returned" => (wait.probes = 1 /\ wait.elapsed < wait.timeout))
    /\ [](wait.pc = "failed" =>
            /\ wait.elapsed >= wait.timeout
            /\ wait.error = <<"Module ">>
                    \o (IF wait.match = <<>> THEN <<"predicate">> ELSE Join(wait.match))
                    \o <<" not found within timeout">>)
    /\ [](wait.pc \in {"test", "delay"} => <>(wait.pc \in {"returned", "failed"}))

\* a call whose probes found nothing has failed after its timeout
C20_Witness ==
    /\ wait.pc = "failed"
    /\ wait.probes = 1
    /\ wait.timeout = MaxTimeout
    /\ wait.match = <<"dispatch", "subscribe">>

\* C21: a stop() during which the unsubscribe call or a removal call raises
\* does not raise and completes every step: the subscription handle is
\* cleared, the table is empty and no persistence timer is pending.
C21_TeardownCompletes ==
    last.op = "stop" =>
        /\ ~escaped
        /\ ~channelSelectUnsub
        /\ injectedMessages = <<>>
        /\ persistTimer # "pending"
        /\ timers = 0

\* C22: a refreshChannel(A) call, before and after its await and however it
\* interleaves with the calls for other channels, leaves the table entry of
\* every other channel B as it was and makes no removal (or injection) call
\* for B.  The step is a refreshChannel(A) call by the channel-select handler
\* or the rest of a suspended refreshChannel(A); last names it and A.
C22_CrossChannel ==
    [][last'.op \in {"refreshChannel", "resume"} =>
          LET a == last'.ch IN
              /\ \A b \in Channels \ {a} :
                    EntriesFor(injectedMessages', b) = EntriesFor(injectedMessages, b)
              /\ \A i \in 1..Len(calls') :
                    calls'[i].op \in {"delete", "receive"} => calls'[i].ch = a]_vars

\* a refreshChannel(A) has recorded A while the table held the entry of B and
\* a refreshChannel(B), called during A's await, was still suspended
C22_Witness ==
    /\ last.op = "resume"
    /\ ReceiveCalls # {}
    /\ \E j \in 1..Len(pending) : pending[j].ch # last.ch
    /\ \E b \in Channels \ {last.ch} : MapHas(injectedMessages, b)
    /\ MapHas(injectedMessages, last.ch)

\* C23: a stopped engine never ends up subscribed: once a start() that was
\* stopped while suspended has finished (no start() in flight, the started
\* flag false), no channel-select handler is registered, no subscription
\* handle is held, and the step made no refreshChannel call that goes on to
\* inject.
C23_StoppedNeverSubscribed ==
    (~started /\ startPc = "idle") =>
        /\ registered = 0
        /\ ~channelSelectUnsub
        /\ ~(last.op = "refreshChannel" /\ last.suspended)

SubscribeCalls == {i \in 1..Len(calls) : calls[i].op = "subscribe"}

\* C24: in every start(), dependency resolution has completed when the
\* persisted configuration is loaded; the handler is subscribed only after
\* resolution (and so after the load), and before the removal and the
\* refreshChannel call of the initial refresh; a start() whose dependency
\* resolution fails subscribes nothing and refreshes nothing.
C24_StartSequence ==
    /\ last.op = "load" => modulesReady
    /\ SubscribeCalls # {} =>
          /\ modulesReady
          /\ channelSelectUnsub
          /\ \A i \in SubscribeCalls, j \in 1..Len(calls) : i <= j
    /\ (last.op = "startFailed" /\ ~modulesReady) =>
          /\ SubscribeCalls = {}
          /\ registered = 0
          /\ ReceiveCalls \cup DeleteCalls = {}

\* C25: at most one channel-select handler is registered at any time, and
\* one is registered exactly while the plugin holds a subscription handle;
\* a step taken while subscribed registers nothing, and the step that drops
\* the handle (the unsubscribe of stop()) deregisters the handler.
C25_IdempotentSubscribe ==
    /\ [](/\ registered <= 1
          /\ channelSelectUnsub <=> registered = 1
          /\ Cardinality(SubscribeCalls) <= 1)
    /\ [][/\ channelSelectUnsub => registered' <= registered
          /\ (channelSelectUnsub /\ ~channelSelectUnsub') => registered' = 0]_vars

\* the host has called subscribeToChannelChanges() on a subscribed plugin,
\* which registered nothing
C25_Witness ==
    /\ last.op = "subscribe"
    /\ last.again
    /\ channelSelectUnsub
    /\ registered = 1
    /\ calls = <<>>

\* C26: at most one persistence timer is live in every reachable state, the
\* one this.persistTimer holds, however many enqueuePersist calls were made;
\* the write of a firing timer is one storage.set call with the
\* configuration of that moment, also when the configuration was replaced
\* without rescheduling after the timer was set.
C26_NoStacking ==
    /\ timers <= 1
    /\ timers = 1 <=> persistTimer = "pending"
    /\ last.op = "persist" =>
          /\ Len(calls) = 1
          /\ calls[1].op = "storageSet"
          /\ calls[1].body = <<config>>
          /\ stored = <<config>>

\* a timer has fired and written a configuration over a different one that
\* an earlier timer wrote
C26_Witness ==
    /\ last.op = "persist"
    /\ last.held # <<>>
    /\ last.held # stored
    /\ timers = 0
    /\ persistTimer = "fired"

\* what the claim takes applyConfig(next, options) to store: for a null or
\* missing next, mergeWithDefaults(null), which is the defaults
ClaimedApplied(next) ==
    mergeWithDefaults(IF next = <<>> THEN <<>> ELSE next[1])

\* what applyConfig(next, options) stores: for a null or missing next, the
\* current configuration merged again
Applied(next, cfg) ==
    mergeWithDefaults(IF next = <<>> THEN cfg ELSE next[1])

\* the effects of the options on a step from the unprimed to the primed state
OptionEffects(options) ==
    /\ options.skipPersist => (persistTimer' = persistTimer /\ timers' = timers)
    /\ ~options.skipPersist => (persistTimer' = "pending" /\ timers' = 1)
    /\ options.skipReload =>
          /\ injectedMessages' = injectedMessages
          /\ pending' = pending
          /\ calls' = <<>>
    /\ (~options.skipReload /\ started) =>
          /\ Len(Deletes(calls')) = Len(injectedMessages)
          /\ \A i \in 1..Len(injectedMessages) :
                Deletes(calls')[i].ch = injectedMessages[i].key
          /\ injectedMessages' = <<>>
          /\ Len(pending') = Len(pending)
                + (IF shouldRenderInChannel(config', current) THEN 1 ELSE 0)
    /\ (~options.skipReload /\ ~started) =>
          (injectedMessages' = injectedMessages /\ pending' = pending /\ calls' = <<>>)

ApplySteps == {"applyConfig", "resetConfigToDefaults"}

\* C27 as stated: every applyConfig(next, options) step stores
\* mergeWithDefaults(next), schedules the write exactly when skipPersist is
\* not set (leaving the timer alone otherwise), and reconciles exactly when
\* skipReload is not set (leaving the table alone and calling no
\* collaborator otherwise); resetConfigToDefaults has the effect of
\* applyConfig(defaults).
C27_ApplyAsClaimed ==
    [][last'.op \in ApplySteps =>
          /\ config' = ClaimedApplied(last'.held[1].next)
          /\ OptionEffects(last'.held[1].options)
          /\ last'.op = "resetConfigToDefaults" =>
                (config' = getDefaultConfig /\ last'.held[1].options = NoOptions)]_vars

\* C27 amended: the same, where a null or missing next stands for the
\* current configuration: the step stores mergeWithDefaults(next ?? current).
C27_Apply ==
    [][last'.op \in ApplySteps =>
          /\ config' = Applied(last'.held[1].next, config)
          /\ OptionEffects(last'.held[1].options)
          /\ last'.op = "resetConfigToDefaults" =>
                (config' = getDefaultConfig /\ last'.held[1].options = NoOptions)]_vars

\* applyConfig with both options set has replaced a configuration that passed
\* the gate by one that fails it; the item stays in the table and no write
\* is scheduled
C27_Witness ==
    /\ last.op = "applyConfig"
    /\ last.held[1].options = [skipPersist |-> TRUE, skipReload |-> TRUE]
    /\ last.held[1].next # <<>>
    /\ ~config.enabled
    /\ injectedMessages # <<>>
    /\ persistTimer # "pending"

\* C28: every refreshChannel(c) call, whatever it decides afterwards, first
\* retracts c: when the table holds an entry for c it makes exactly one
\* removal call, its first call, for c with the saved id, and when it holds
\* none it makes no removal call; either way the table holds no entry for c
\* when the call suspends or returns.  So whatever an in-flight refresh
\* recorded for c is retracted by the next refreshChannel(c).
C28_RetractFirst ==
    [][last'.op = "refreshChannel" =>
          LET c == last'.ch IN
          /\ MapHas(injectedMessages, c) =>
                /\ Len(Deletes(calls')) = 1
                /\ calls'[1].op = "delete"
                /\ calls'[1].ch = c
                /\ calls'[1].id = MapGet(injectedMessages, c)
          /\ ~MapHas(injectedMessages, c) => Deletes(calls') = <<>>
          /\ ~MapHas(injectedMessages', c)]_vars

\* a refreshChannel(c) has retracted the entry of c and suspended, while an
\* earlier refreshChannel(c) is still in flight
C28_Witness ==
    /\ last.op = "refreshChannel"
    /\ last.suspended
    /\ Len(pending) = 2
    /\ pending[1].ch = last.ch
    /\ pending[1].res = "fetching"
    /\ Len(calls) = 1
    /\ calls[1].op = "delete"
    /\ calls[1].ch = last.ch
    /\ ~MapHas(injectedMessages, last.ch)

\* C29: when building or injecting the item raises in a refreshChannel(c)
\* that passed the gate, the error is caught and logged inside
\* refreshChannel: nothing escapes, and the table is left as it was, for c
\* and for every other channel.
C29_BuildErrorsCaught ==
    [][last'.op = "raised" =>
          /\ ~escaped'
          /\ injectedMessages' = injectedMessages
          /\ \E i \in 1..Len(calls') : calls'[i].op = "warn" /\ calls'[i].id = WarnCreate
          /\ \A i \in 1..Len(calls') : calls'[i].op \notin {"receive", "delete"}]_vars

\* the injection collaborator has raised for one channel while the table
\* holds the item of another, and no entry was recorded
C29_Witness ==
    /\ last.op = "raised"
    /\ last.get = "inject"
    /\ ~MapHas(injectedMessages, last.ch)
    /\ \E b \in Channels \ {last.ch} : MapHas(injectedMessages, b)
    /\ Warned(WarnCreate)
    /\ ~escaped

\* C30: every item refreshChannel injects is derived from one applied
\* configuration: there is a configuration, among those that were applied,
\* that passes the gate for the item's channel, whose trimmed sourceIdentity
\* is the item's author id and whose content is the item's body, also when
\* applyConfig replaced the configuration during the await.
C30_ConsistentSnapshot ==
    \A i \in ReceiveCalls :
        \E cfg \in SnapshotConfigs :
            /\ shouldRenderInChannel(cfg, calls[i].ch)
            /\ calls[i].author.id = Trim(cfg.discordId)
            /\ calls[i].body = decorateContent(cfg.messageContent, timestampBadgePatched)

\* C31: every table entry (c -> id) has id = the namespaced prefix, ":", c,
\* and stands for an item injected with channel id c (the last call made for
\* c was the injection of that id); every injection passes the channel and
\* the id built from it together, and every removal call passes a channel
\* and the id that was injected for it before.
C31_DeterministicId ==
    /\ \A i \in 1..Len(injectedMessages) :
          /\ injectedMessages[i].value = MESSAGE_ID_PREFIX \o <<":">> \o injectedMessages[i].key
          /\ shown[injectedMessages[i].key]
    /\ \A i \in ReceiveCalls :
          calls[i].id = MESSAGE_ID_PREFIX \o <<":">> \o calls[i].ch
    /\ \A i \in DeleteCalls :
          /\ calls[i].id = MESSAGE_ID_PREFIX \o <<":">> \o calls[i].ch
          /\ calls[i].wasShown

\* a refreshChannel call has retracted the entry of its channel while the
\* table holds the entry of another channel
C31_Witness ==
    /\ last.op = "refreshChannel"
    /\ DeleteCalls # {}
    /\ injectedMessages # <<>>

\* the identifiers a payload carries, in the order of precedence: channelId,
\* channel.id, id, the string itself
Carried(payload) ==
    SelectSeq(<<payload.channelId,
                IF payload.channel # NoProperty THEN payload.channel[1].id ELSE NoProperty,
                payload.id,
                payload.str>>,
              LAMBDA v : v # NoProperty /\ v[1] # <<>>)

C33_QuiescentEmpty ==
    (/\ started
     /\ pending = <<>>
     /\ \A c \in Channels : ~shouldRenderInChannel(config, c))
        => injectedMessages = <<>>

====
